---- MODULE Spec2Model ----
(***************************************************************************)
(* Student risk dashboard: three Streamlit pages (Overview, Deep Insights, *)
(* Predictions).  Every user interaction re-runs the script of the page    *)
(* being shown from top to bottom: load (memoized) -> sidebar filters ->   *)
(* page body.  The model follows the three scripts statement by statement. *)
(*                                                                         *)
(* Real numbers are carried as fixed-point integers in hundredths; every   *)
(* grade the model handles is a multiple of a tenth, so the one division   *)
(* of the code, (10 - p) / 10, is exact in this representation.            *)
(***************************************************************************)
EXTENDS Integers, Sequences, FiniteSets, TLC

VARIABLES
    dataset,         \* what fetch_ucirepo(id=320) returns (the provider's table)
    cache,           \* st.cache_data: one memo per decorated load_student_data
    fetches,         \* per page script: number of fetch_ucirepo calls made
    page,            \* the page whose script ran last ("none" before any render)
    selected,        \* sidebar widget values of that run
    filtered,        \* the script's `filtered` frame (rows)
    status,          \* "ok", or the exception that ended the script run
    kpi,             \* the KPI metrics the run displayed
    X_encoded,       \* the script's X_encoded frame
    rf,              \* the script's fitted RandomForestRegressor
    predictions,     \* filtered with predicted_G3 / risk_probability / at_risk
    risk_by_school,  \* the script's risk_by_school table
    what_if          \* the risk form's result shown by the run

vars == <<dataset, cache, fetches, page, selected, filtered, status, kpi,
          X_encoded, rf, predictions, risk_by_school, what_if>>

-----------------------------------------------------------------------------
(* Bounds of the model *)

MaxRecords == 2       \* rows in the provider's table
MaxStudytime == 2     \* studytime takes values 1..MaxStudytime
MinGrade == 10        \* pure risk functions: lowest grade tried is -MinGrade tenths
MaxGrade == 110       \* pure risk functions: highest grade tried, in tenths
MaxAssessments == 4   \* aggregator: rows in a risk-assessment collection

-----------------------------------------------------------------------------
(* Fixed-point reals *)

Scale == 10 * 10
Real(n) == n * Scale
Tenth == Scale \div 10

NaN == [nan |-> TRUE, num |-> 0, den |-> 1]
Ratio(n, d) == [nan |-> FALSE, num |-> n, den |-> d]

RECURSIVE SumSeq(_)
SumSeq(s) == IF s = <<>> THEN 0 ELSE Head(s) + SumSeq(Tail(s))

\* pandas Series.mean(): NaN on an empty series
SeriesMean(s) == IF Len(s) = 0 THEN NaN ELSE Ratio(SumSeq(s), Len(s))

\* scalar * 100 (NaN stays NaN)
Times100(x) == IF x.nan THEN NaN ELSE Ratio(x.num * 100, x.den)

Bool01(b) == IF b THEN 1 ELSE 0

MapSeq(s, Op(_)) == [i \in 1..Len(s) |-> Op(s[i])]

Range(s) == {s[i] : i \in 1..Len(s)}

-----------------------------------------------------------------------------
(* The provider's table *)

\* The table keeps two categorical columns (school, sex), one numeric column
\* the risk form does not ask for (age), one it does (studytime) and the target
\* (G3).  The observed G3 takes one value, so a fitted forest has one possible
\* prediction; grades on both sides of 10 are covered by SpecRisk and SpecAgg.
SchoolCodes == <<"GP", "MS">>
Sexes == <<"F", "M">>
Ages == {16}
G3Values == {9}

RawRecords ==
    [school : Range(SchoolCodes), sex : Range(Sexes), age : Ages,
     studytime : 1..MaxStudytime, G3 : G3Values]

Datasets == UNION {[1..n -> RawRecords] : n \in 1..MaxRecords}

NoLabel == "nan"

\* df["school"].map({...}): a code outside the mapping has no label
SchoolName(code) ==
    CASE code = "GP" -> "Gabriel Pereira"
      [] code = "MS" -> "Mousinho da Silveira"
      [] OTHER -> NoLabel

\* the body of load_student_data: concat features and targets, add school_name
BuildFrame(raw) ==
    [i \in 1..Len(raw) |->
        [school |-> raw[i].school, sex |-> raw[i].sex, age |-> raw[i].age,
         studytime |-> raw[i].studytime, G3 |-> raw[i].G3,
         school_name |-> SchoolName(raw[i].school)]]

Pages == {"Overview", "Deep_Insights", "Predictions"}

NoEntry == [hit |-> FALSE, value |-> <<>>]

\* faulty variant: the loader without its memo
load_student_data_uncached(p) ==
    LET df == BuildFrame(dataset)
    IN  [df |-> df,
         cache |-> [cache EXCEPT ![p] = [hit |-> TRUE, value |-> df]],
         fetches |-> [fetches EXCEPT ![p] = @ + 1]]

\* @st.cache_data around load_student_data of page script p: [df, cache', fetches']
load_student_data(p) ==
    IF cache[p].hit
    THEN [df |-> cache[p].value, cache |-> cache, fetches |-> fetches]
    ELSE LET df == BuildFrame(dataset)
         IN  [df |-> df,
              cache |-> [cache EXCEPT ![p] = [hit |-> TRUE, value |-> df]],
              fetches |-> [fetches EXCEPT ![p] = @ + 1]]

-----------------------------------------------------------------------------
(* Sidebar filters *)

SchoolOptions(df) == {df[i].school_name : i \in 1..Len(df)}
GenderOptions(df) == {df[i].sex : i \in 1..Len(df)}

SetMin(S) == CHOOSE x \in S : \A y \in S : x <= y
SetMax(S) == CHOOSE x \in S : \A y \in S : x >= y

StudytimeMin(df) == SetMin({df[i].studytime : i \in 1..Len(df)})
StudytimeMax(df) == SetMax({df[i].studytime : i \in 1..Len(df)})

\* the widgets' default values
DefaultSelection(df) ==
    [school |-> SchoolOptions(df), gender |-> GenderOptions(df),
     studytime |-> StudytimeMin(df)]

\* the values the widgets let a user choose
Selections(df) ==
    [school : SUBSET SchoolOptions(df), gender : SUBSET GenderOptions(df),
     studytime : StudytimeMin(df)..StudytimeMax(df)]

Keep(r, sel) ==
    /\ r.school_name \in sel.school
    /\ r.sex \in sel.gender
    /\ r.studytime >= sel.studytime

\* faulty variant: a strict study-time threshold
FilterStrictStudytime(df, sel) ==
    SelectSeq(df, LAMBDA r : /\ r.school_name \in sel.school
                             /\ r.sex \in sel.gender
                             /\ r.studytime > sel.studytime)

\* faulty variant: the predicates joined by "or"
FilterAnyPredicate(df, sel) ==
    SelectSeq(df, LAMBDA r : \/ r.school_name \in sel.school
                             \/ r.sex \in sel.gender
                             \/ r.studytime >= sel.studytime)

Overview_filtered(df, sel) == SelectSeq(df, LAMBDA r : Keep(r, sel))
Insights_filtered(df, sel) == SelectSeq(df, LAMBDA r : Keep(r, sel))
Predictions_filtered(df, sel) == SelectSeq(df, LAMBDA r : Keep(r, sel))

-----------------------------------------------------------------------------
(* Frames and the feature encoder *)

\* column order of the loaded frame (features, then the target, then the label)
DfColumns == <<"school", "sex", "age", "studytime", "G3", "school_name">>

\* column order of the risk form's student_dict
FormColumns == <<"studytime", "sex", "school">>

NoFrame == [columns |-> <<>>, rows |-> <<>>]

Column(rows, c) == [i \in 1..Len(rows) |-> rows[i][c]]

\* DataFrame.drop(columns=...)
DropColumns(columns, rows, dropped) ==
    LET kept == SelectSeq(columns, LAMBDA c : c \notin dropped)
    IN  [columns |-> kept,
         rows |-> [i \in 1..Len(rows) |-> [c \in Range(kept) |-> rows[i][c]]]]

\* object-dtype columns
IsCategorical(c) == c \in {"school", "sex", "school_name"}

\* the sorted order of a categorical column's values
LevelOrder(c) == IF c = "school" THEN SchoolCodes ELSE Sexes

DummyName(c, l) ==
    CASE c = "school" /\ l = "GP" -> "school_GP"
      [] c = "school" /\ l = "MS" -> "school_MS"
      [] c = "sex" /\ l = "F" -> "sex_F"
      [] c = "sex" /\ l = "M" -> "sex_M"

\* levels of column c observed in the frame, sorted
ObservedLevels(frame, c) ==
    SelectSeq(LevelOrder(c),
              LAMBDA l : \E i \in 1..Len(frame.rows) : frame.rows[i][c] = l)

\* drop_first=True removes the first observed level
DummyLevels(frame, c) ==
    LET o == ObservedLevels(frame, c)
    IN  IF o = <<>> THEN <<>> ELSE Tail(o)

RECURSIVE DummyColumns(_, _)
DummyColumns(frame, cats) ==
    IF cats = <<>> THEN <<>>
    ELSE MapSeq(DummyLevels(frame, Head(cats)),
                LAMBDA l : [name |-> DummyName(Head(cats), l),
                            of |-> Head(cats), level |-> l])
         \o DummyColumns(frame, Tail(cats))

\* pd.get_dummies(frame, drop_first=True): numeric columns first, in order,
\* then the indicator columns of each categorical column in order
get_dummies(frame) ==
    LET num == SelectSeq(frame.columns, LAMBDA c : ~IsCategorical(c))
        dum == DummyColumns(frame, SelectSeq(frame.columns, IsCategorical))
        cols == num \o MapSeq(dum, LAMBDA d : d.name)
        Cell(row, c) ==
            IF c \in Range(num) THEN row[c]
            ELSE LET d == CHOOSE d \in Range(dum) : d.name = c
                 IN  Bool01(row[d.of] = d.level)
    IN  [columns |-> cols,
         rows |-> [i \in 1..Len(frame.rows) |->
                      [c \in Range(cols) |-> Cell(frame.rows[i], c)]]]

\* faulty variant: reindex that keeps only the columns the frame already has
reindex_no_fill(frame, columns, fill_value) ==
    LET kept == SelectSeq(columns, LAMBDA c : c \in Range(frame.columns))
    IN  [columns |-> kept,
         rows |-> [i \in 1..Len(frame.rows) |->
                      [c \in Range(kept) |-> frame.rows[i][c]]]]

\* DataFrame.reindex(columns=..., fill_value=...)
reindex(frame, columns, fill_value) ==
    [columns |-> columns,
     rows |-> [i \in 1..Len(frame.rows) |->
                  [c \in Range(columns) |->
                      IF c \in Range(frame.columns) THEN frame.rows[i][c]
                      ELSE fill_value]]]

-----------------------------------------------------------------------------
(* The regressor.  RandomForestRegressor is a library: the model keeps what *)
(* the scripts rely on.  fit raises ValueError on zero samples, predict     *)
(* raises ValueError when the frame's column names differ from the fitted   *)
(* ones, and a prediction is an average of training targets, so it lies     *)
(* between the least and the greatest of them (taken here on whole grades). *)

NoModel == [fitted |-> FALSE, n_estimators |-> 0, feature_names_in_ |-> <<>>,
            X |-> <<>>, y |-> <<>>]

FitRaises(X, y) == Len(X.rows) = 0

\* faulty variant: a fitted model kept from the previous run
FitReusePrevious(n_estimators, X, y) ==
    IF rf.fitted THEN rf
    ELSE [fitted |-> TRUE, n_estimators |-> n_estimators,
          feature_names_in_ |-> X.columns, X |-> X.rows, y |-> y]

Fit(n_estimators, X, y) ==
    [fitted |-> TRUE, n_estimators |-> n_estimators,
     feature_names_in_ |-> X.columns, X |-> X.rows, y |-> y]

PredictRaises(model, X) == X.columns # model.feature_names_in_

PredictedGrades(model) ==
    {Real(g) : g \in SetMin(Range(model.y))..SetMax(Range(model.y))}

\* the prediction vectors rf.predict(X) may return
Predict(model, X) == [1..Len(X.rows) -> PredictedGrades(model)]

-----------------------------------------------------------------------------
(* Risk score and at-risk decision *)

Min2(a, b) == IF a <= b THEN a ELSE b
Max2(a, b) == IF a >= b THEN a ELSE b

ClipLower(x, lo) == Max2(x, lo)
Clip(x, lo, hi) == Min2(Max2(x, lo), hi)

\* ((10 - predicted_G3).clip(lower=0) / 10).clip(0, 1)
BatchRiskProbability(p) ==
    Clip(ClipLower(Real(10) - p, Real(0)) \div 10, Real(0), Real(1))

\* faulty variant: the boundary grade counted as at risk
BatchAtRiskInclusive(p) == p <= Real(10)

\* filtered["predicted_G3"] < 10
BatchAtRisk(p) == p < Real(10)

\* faulty variant: the lower clamp left out
SingleRiskProbNoFloor(p) == Min2((Real(10) - p) \div 10, Real(1))

\* max(0, min((10 - predicted_grade) / 10, 1))
SingleRiskProb(p) == Max2(Real(0), Min2((Real(10) - p) \div 10, Real(1)))

\* if predicted_grade < 10: st.warning("At Risk ...") else: st.success(...)
SingleVerdict(p) == IF p < Real(10) THEN "At Risk" ELSE "Not At Risk"

\* one row of `filtered` after the three column assignments
Assess(r, p) ==
    [school |-> r.school, sex |-> r.sex, age |-> r.age,
     studytime |-> r.studytime, G3 |-> r.G3, school_name |-> r.school_name,
     predicted_G3 |-> p,
     risk_probability |-> BatchRiskProbability(p),
     at_risk |-> BatchAtRisk(p)]

-----------------------------------------------------------------------------
(* Aggregation *)

SchoolLabels == <<"Gabriel Pereira", "Mousinho da Silveira">>

\* faulty variant: every key given the mean over the whole collection
RiskBySchoolUngrouped(rows) ==
    LET keys == SelectSeq(SchoolLabels,
                          LAMBDA k : \E i \in 1..Len(rows) : rows[i].school_name = k)
        Mean == SeriesMean(MapSeq(rows, LAMBDA r : Bool01(r.at_risk)))
    IN  MapSeq(keys, LAMBDA k : [school_name |-> k, at_risk |-> Mean,
                                 at_risk_pct |-> Times100(Mean)])

\* filtered.groupby("school_name")["at_risk"].mean().reset_index(), then the
\* at_risk_pct column: one row per observed key, keys sorted
RiskBySchool(rows) ==
    LET keys == SelectSeq(SchoolLabels,
                          LAMBDA k : \E i \in 1..Len(rows) : rows[i].school_name = k)
        Mean(k) == SeriesMean(MapSeq(SelectSeq(rows, LAMBDA r : r.school_name = k),
                                     LAMBDA r : Bool01(r.at_risk)))
    IN  MapSeq(keys, LAMBDA k : [school_name |-> k, at_risk |-> Mean(k),
                                 at_risk_pct |-> Times100(Mean(k))])

NoKpi == [shown |-> FALSE]

\* Overview: total_students, avg_grade, at_risk_pct on the observed G3
OverviewKpi(f) ==
    [shown |-> TRUE,
     total_students |-> Len(f),
     avg_grade |-> SeriesMean(Column(f, "G3")),
     at_risk_pct |-> Times100(SeriesMean(MapSeq(f, LAMBDA r : Bool01(r.G3 < 10))))]

\* Predictions: at_risk_pct, at_risk_count, high_risk_count on the predictions
PredictionsKpi(rows) ==
    LET total_students == Len(rows)
        at_risk_count == SumSeq(MapSeq(rows, LAMBDA r : Bool01(r.at_risk)))
    IN  [shown |-> TRUE,
         total_students |-> total_students,
         at_risk_pct |-> IF total_students = 0 THEN NaN
                         ELSE Ratio(at_risk_count * 100, total_students),
         at_risk_count |-> at_risk_count,
         high_risk_count |->
             SumSeq(MapSeq(rows, LAMBDA r : Bool01(r.risk_probability >= 7 * Tenth)))]

-----------------------------------------------------------------------------
(* The page scripts: one run, top to bottom *)

NoSelection == [school |-> {}, gender |-> {}, studytime |-> 0]

NoWhatIf == [submitted |-> FALSE, shown |-> FALSE]

\* the values the risk form lets a user submit
FormInputs(df) ==
    [school : SchoolOptions(df), gender : GenderOptions(df),
     studytime : 1..MaxStudytime]

NoForm == [school |-> NoLabel, gender |-> "", studytime |-> 0]

\* student_dict -> student_df (one row)
StudentFrame(form) ==
    [columns |-> FormColumns,
     rows |-> <<[studytime |-> form.studytime, sex |-> form.gender,
                 school |-> IF form.school = "Gabriel Pereira" THEN "GP" ELSE "MS"]>>]

\* pd.get_dummies(student_df, drop_first=True).reindex(columns=X_encoded.columns, fill_value=0)
StudentEncoded(form, X) == reindex(get_dummies(StudentFrame(form)), X.columns, 0)

\* what the `if submitted:` block shows for predicted_grade p
FormResult(form, student_encoded, model, p) ==
    [submitted |-> TRUE, shown |-> TRUE,
     student |-> form,
     student_encoded |-> student_encoded,
     by |-> model,
     predicted_grade |-> p,
     risk_prob |-> SingleRiskProb(p),
     verdict |-> SingleVerdict(p)]

\* 1_Overview.py
Overview(sel) ==
    LET ld == load_student_data("Overview")
        f == Overview_filtered(ld.df, sel)
    IN  /\ cache' = ld.cache
        /\ fetches' = ld.fetches
        /\ page' = "Overview"
        /\ selected' = sel
        /\ filtered' = f
        /\ kpi' = OverviewKpi(f)
        /\ status' = "ok"
        /\ X_encoded' = NoFrame
        /\ rf' = NoModel
        /\ predictions' = <<>>
        /\ risk_by_school' = <<>>
        /\ what_if' = NoWhatIf
        /\ UNCHANGED dataset

\* pages/2_Deep_Insights.py
Deep_Insights(sel) ==
    LET ld == load_student_data("Deep_Insights")
        f == Insights_filtered(ld.df, sel)
        X_features == DropColumns(DfColumns, f, {"G3", "school_name"})
        y_target == Column(f, "G3")
        X == get_dummies(X_features)
    IN  /\ cache' = ld.cache
        /\ fetches' = ld.fetches
        /\ page' = "Deep_Insights"
        /\ selected' = sel
        /\ filtered' = f
        /\ kpi' = NoKpi
        /\ X_encoded' = X
        /\ IF FitRaises(X, y_target)
           THEN status' = "ValueError" /\ rf' = NoModel
           ELSE status' = "ok" /\ rf' = Fit(200, X, y_target)
        /\ predictions' = <<>>
        /\ risk_by_school' = <<>>
        /\ what_if' = NoWhatIf
        /\ UNCHANGED dataset

\* 3_Predictions.py; `submitted` is the form button's value in this run
Predictions(sel, submitted, form) ==
    LET ld == load_student_data("Predictions")
        f == Predictions_filtered(ld.df, sel)
        features == DropColumns(DfColumns, f, {"G3", "school_name"})
        target == Column(f, "G3")
        X == get_dummies(features)
        model == Fit(300, X, target)
        student_encoded == StudentEncoded(form, X)
    IN  /\ cache' = ld.cache
        /\ fetches' = ld.fetches
        /\ page' = "Predictions"
        /\ selected' = sel
        /\ filtered' = f
        /\ X_encoded' = X
        /\ UNCHANGED dataset
        /\ IF FitRaises(X, target)
           THEN /\ status' = "ValueError"
                /\ rf' = NoModel
                /\ kpi' = NoKpi
                /\ predictions' = <<>>
                /\ risk_by_school' = <<>>
                /\ what_if' = NoWhatIf
           ELSE /\ rf' = model
                /\ \E predicted_G3 \in Predict(model, X) :
                      LET rows == [i \in 1..Len(f) |-> Assess(f[i], predicted_G3[i])]
                      IN  /\ predictions' = rows
                          /\ kpi' = PredictionsKpi(rows)
                          /\ risk_by_school' = RiskBySchool(rows)
                /\ IF ~submitted
                   THEN status' = "ok" /\ what_if' = NoWhatIf
                   ELSE IF PredictRaises(model, student_encoded)
                   THEN /\ status' = "ValueError"
                        /\ what_if' = [submitted |-> TRUE, shown |-> FALSE,
                                       student |-> form,
                                       student_encoded |-> student_encoded]
                   ELSE \E p \in Predict(model, student_encoded) :
                        /\ status' = "ok"
                        /\ what_if' = FormResult(form, student_encoded, model, p[1])

Script(p, sel, submitted, form) ==
    CASE p = "Overview" -> Overview(sel)
      [] p = "Deep_Insights" -> Deep_Insights(sel)
      [] p = "Predictions" -> Predictions(sel, submitted, form)

-----------------------------------------------------------------------------
(* The session: what a user can do, each followed by a full script run.    *)
(* A page opens with its widgets at their defaults; changing one sidebar   *)
(* widget re-runs the page with the other widgets unchanged; the form      *)
(* button is True only in the run its submission triggers.                 *)

Init ==
    /\ dataset \in Datasets
    /\ cache = [p \in Pages |-> NoEntry]
    /\ fetches = [p \in Pages |-> 0]
    /\ page = "none"
    /\ selected = NoSelection
    /\ filtered = <<>>
    /\ status = "ok"
    /\ kpi = NoKpi
    /\ X_encoded = NoFrame
    /\ rf = NoModel
    /\ predictions = <<>>
    /\ risk_by_school = <<>>
    /\ what_if = NoWhatIf

\* the frame every script of this process works on
Df == BuildFrame(dataset)

\* navigate to a page: its widgets show their defaults
OpenPage(p) ==
    /\ p # page
    /\ Script(p, DefaultSelection(Df), FALSE, NoForm)

SelectSchool(S) ==
    /\ page \in Pages
    /\ S # selected.school
    /\ Script(page, [selected EXCEPT !.school = S], FALSE, NoForm)

SelectGender(G) ==
    /\ page \in Pages
    /\ G # selected.gender
    /\ Script(page, [selected EXCEPT !.gender = G], FALSE, NoForm)

SlideStudytime(m) ==
    /\ page \in Pages
    /\ m # selected.studytime
    /\ Script(page, [selected EXCEPT !.studytime = m], FALSE, NoForm)

\* the risk form exists only when the last run got as far as drawing it
SubmitRiskForm(form) ==
    /\ page = "Predictions"
    /\ status = "ok"
    /\ Script(page, selected, TRUE, form)

Next ==
    \/ \E p \in Pages : OpenPage(p)
    \/ \E S \in SUBSET SchoolOptions(Df) : SelectSchool(S)
    \/ \E G \in SUBSET GenderOptions(Df) : SelectGender(G)
    \/ \E m \in StudytimeMin(Df)..StudytimeMax(Df) : SlideStudytime(m)
    \/ \E form \in FormInputs(Df) : SubmitRiskForm(form)

Spec == Init /\ [][Next]_vars

-----------------------------------------------------------------------------
(* The risk score as a function of the predicted grade: both paths of       *)
(* 3_Predictions.py applied to grades -MinGrade/10 .. MaxGrade/10, by tenths *)

Grades == {g * Tenth : g \in (0 - MinGrade)..MaxGrade}

ProbeRaw(code) == [school |-> code, sex |-> "F", age |-> 16, studytime |-> 1, G3 |-> 9]
ProbeRow(code) == BuildFrame(<<ProbeRaw(code)>>)[1]
ProbeForm == [school |-> "Gabriel Pereira", gender |-> "F", studytime |-> 1]
ProbeX == get_dummies(DropColumns(DfColumns, <<ProbeRow("GP")>>, {"G3", "school_name"}))
ProbeModel == Fit(300, ProbeX, <<9>>)
ProbeEncoded == StudentEncoded(ProbeForm, ProbeX)

Idle ==
    /\ cache = [p \in Pages |-> NoEntry]
    /\ fetches = [p \in Pages |-> 0]
    /\ page = "none"
    /\ selected = NoSelection
    /\ filtered = <<>>
    /\ status = "ok"
    /\ kpi = NoKpi
    /\ X_encoded = NoFrame
    /\ rf = NoModel
    /\ risk_by_school = <<>>
    /\ what_if = NoWhatIf

InitRisk ==
    /\ dataset = <<ProbeRaw("GP")>>
    /\ predictions = <<>>
    /\ Idle

\* lines 86-91 on one row whose prediction is p
AssessBatch(p) ==
    /\ predictions' = <<Assess(ProbeRow("GP"), p)>>
    /\ UNCHANGED <<dataset, cache, fetches, page, selected, filtered, status, kpi,
                   X_encoded, rf, risk_by_school, what_if>>

\* lines 170-185 on a form whose prediction is p
AssessSingle(p) ==
    /\ what_if' = FormResult(ProbeForm, ProbeEncoded, ProbeModel, p)
    /\ UNCHANGED <<dataset, cache, fetches, page, selected, filtered, status, kpi,
                   X_encoded, rf, risk_by_school, predictions>>

NextRisk ==
    \/ \E p \in Grades : AssessBatch(p)
    \/ \E p \in Grades : AssessSingle(p)

SpecRisk == InitRisk /\ [][NextRisk]_vars

-----------------------------------------------------------------------------
(* The aggregator on risk-assessment collections of up to MaxAssessments    *)
(* rows, each a school and a predicted grade on either side of 10           *)

AssessedRows == {Assess(ProbeRow(c), Real(g)) : c \in Range(SchoolCodes), g \in {9, 11}}

InitAgg ==
    /\ predictions \in UNION {[1..n -> AssessedRows] : n \in 0..MaxAssessments}
    /\ dataset = <<ProbeRaw("GP")>>
    /\ Idle

\* lines 98-118 on the collection
Aggregate ==
    /\ ~kpi.shown
    /\ kpi' = PredictionsKpi(predictions)
    /\ risk_by_school' = RiskBySchool(predictions)
    /\ UNCHANGED <<dataset, cache, fetches, page, selected, filtered, status,
                   X_encoded, rf, predictions, what_if>>

NextAgg == Aggregate

SpecAgg == InitAgg /\ [][NextAgg]_vars

-----------------------------------------------------------------------------
(* Properties *)

\* C1: for every predicted grade p, on the batch path and on the risk form
\* alike, the at-risk decision is true exactly when p < 10; p = 10 is not at
\* risk, and the form shows "At Risk" exactly when p < 10.
AtRiskIffBelowTen ==
    /\ \A i \in 1..Len(predictions) :
          predictions[i].at_risk <=> (predictions[i].predicted_G3 < 10 * Scale)
    /\ what_if.shown =>
          ((what_if.verdict = "At Risk") <=> (what_if.predicted_grade < 10 * Scale))

AtRiskBoundaryReached ==
    /\ predictions # <<>>
    /\ predictions[1].predicted_G3 = 10 * Scale
    /\ ~predictions[1].at_risk
    /\ what_if.shown
    /\ what_if.predicted_grade = 10 * Scale - Tenth
    /\ what_if.verdict = "At Risk"

\* C2: risk_probability(p) = clamp((10 - p) / 10, 0, 1): it lies in [0, 1], is
\* 1 for p <= 0, 0 for p >= 10, exactly 0.5 at p = 5, never increases with p,
\* and the batch formula and the form's formula agree on every p.
RiskProbabilityIsClampedLine ==
    LET Clamped(p, r) ==
            /\ 0 <= r /\ r <= Scale
            /\ p <= 0 => r = Scale
            /\ p >= 10 * Scale => r = 0
            /\ p = 5 * Scale => 2 * r = Scale
            /\ (0 <= p /\ p <= 10 * Scale) => 10 * r = 10 * Scale - p
    IN  /\ \A i \in 1..Len(predictions) :
              Clamped(predictions[i].predicted_G3, predictions[i].risk_probability)
        /\ what_if.shown => Clamped(what_if.predicted_grade, what_if.risk_prob)
        /\ what_if.shown =>
              \A i \in 1..Len(predictions) :
                 /\ predictions[i].predicted_G3 <= what_if.predicted_grade
                       => what_if.risk_prob <= predictions[i].risk_probability
                 /\ what_if.predicted_grade <= predictions[i].predicted_G3
                       => predictions[i].risk_probability <= what_if.risk_prob

RiskHalfAtFiveReached ==
    /\ predictions # <<>>
    /\ predictions[1].predicted_G3 = 5 * Scale
    /\ 2 * predictions[1].risk_probability = Scale
    /\ what_if.shown
    /\ what_if.predicted_grade = 5 * Scale
    /\ what_if.risk_prob = predictions[1].risk_probability

\* C3 (as claimed): the risk form's record gets, in every indicator column of
\* the fitted schema, the value a training row of its category gets: 1 when the
\* record's category is that column's level and 0 otherwise.
FormRecordEncodedAsTrainingRow ==
    what_if.submitted =>
        LET v == what_if.student_encoded.rows[1]
            code == IF what_if.student.school = "Gabriel Pereira" THEN "GP" ELSE "MS"
        IN  \A c \in Range(X_encoded.columns) \cap DOMAIN v :
               /\ c = "sex_M" => v[c] = Bool01(what_if.student.gender = "M")
               /\ c = "sex_F" => v[c] = Bool01(what_if.student.gender = "F")
               /\ c = "school_MS" => v[c] = Bool01(code = "MS")
               /\ c = "school_GP" => v[c] = Bool01(code = "GP")

\* C4: the aligned encoding of the form's record has exactly the fitted
\* schema's columns, in the schema's order; a column of the record's own
\* expansion that is not in the schema is dropped, and a schema column absent
\* from the record's expansion holds zero.
AlignedToFittedSchema ==
    what_if.submitted =>
        LET e == what_if.student_encoded
            own == get_dummies(StudentFrame(what_if.student))
        IN  /\ e.columns = X_encoded.columns
            /\ Len(e.rows) = 1
            /\ DOMAIN e.rows[1] = Range(X_encoded.columns)
            /\ \A c \in Range(X_encoded.columns) :
                  e.rows[1][c] = IF c \in Range(own.columns) THEN own.rows[1][c] ELSE 0

AlignedWithZeroFillReached ==
    /\ what_if.shown
    /\ X_encoded.columns = <<"age", "studytime", "school_MS", "sex_M">>
    /\ what_if.student.gender = "M"
    /\ what_if.student.studytime = 2
    /\ what_if.student_encoded.rows[1]["studytime"] = 2
    /\ what_if.student_encoded.rows[1]["age"] = 0

\* C5: on every page the filtered cohort is exactly the records, in original
\* order, whose school label and gender are selected and whose studytime is at
\* least the minimum; an empty selection of schools or of genders gives the
\* empty cohort.
FilteredIsExactSubsequence ==
    page \in Pages =>
        LET idx == {i \in 1..Len(Df) :
                       /\ Df[i].school_name \in selected.school
                       /\ Df[i].sex \in selected.gender
                       /\ Df[i].studytime >= selected.studytime}
            Rank(i) == Cardinality({j \in idx : j <= i})
        IN  /\ Len(filtered) = Cardinality(idx)
            /\ \A i \in idx : filtered[Rank(i)] = Df[i]
            /\ (selected.school = {} \/ selected.gender = {}) => filtered = <<>>

FilterDropsFirstRecordReached ==
    /\ page = "Predictions"
    /\ Len(Df) = 2
    /\ Df[1].studytime = 1
    /\ selected.studytime = 2
    /\ filtered = <<Df[2]>>

\* C6 (as claimed): when the criteria select no record the run does not fail:
\* the KPIs report zeros and the model fit is skipped.
EmptyCohortHandled ==
    (page \in Pages /\ filtered = <<>>) =>
        /\ status = "ok"
        /\ ~rf.fitted
        /\ page \in {"Overview", "Predictions"} =>
              /\ kpi.shown
              /\ kpi.total_students = 0
              /\ ~kpi.at_risk_pct.nan
              /\ kpi.at_risk_pct.num = 0

\* C7 (as claimed): over any sequence of page renders in one process the
\* provider is asked for the dataset at most once.
FetchedAtMostOncePerProcess ==
    fetches["Overview"] + fetches["Deep_Insights"] + fetches["Predictions"] <= 1

\* C7 (amended): each page script's loader asks the provider at most once per
\* process (three times in all at most); every later call of that loader
\* returns the memoized frame, which no render step has changed.
FetchedAtMostOncePerPage ==
    \A p \in Pages :
       /\ fetches[p] <= 1
       /\ cache[p].hit <=> fetches[p] = 1
       /\ cache[p].hit => cache[p].value = BuildFrame(dataset)
       /\ page = p => cache[p].hit

RerunOnMemoizedPagesReached ==
    /\ \A p \in Pages : cache[p].hit /\ fetches[p] = 1
    /\ page = "Predictions"
    /\ Len(predictions) = 1
    /\ Len(Df) = 2

\* C8: with every school label and every gender selected and the minimum
\* study time at the dataset's minimum, the filter returns the whole input in
\* its order.
FullSelectionIsIdentity ==
    (/\ page \in Pages
     /\ selected.school = {Df[i].school_name : i \in 1..Len(Df)}
     /\ selected.gender = {Df[i].sex : i \in 1..Len(Df)}
     /\ \A i \in 1..Len(Df) : selected.studytime <= Df[i].studytime)
        => filtered = Df

DefaultsShowWholeDatasetReached ==
    /\ page = "Overview"
    /\ selected.school = {"Gabriel Pereira", "Mousinho da Silveira"}
    /\ selected.gender = {"F", "M"}
    /\ selected.studytime = 1
    /\ Len(filtered) = 2
    /\ filtered[1].studytime = 2
    /\ filtered[2].studytime = 1

\* C9: the aggregator reports one entry per school label present, whose rate
\* is (at-risk records of the label) / (records of the label), a fraction in
\* [0, 1], shown times 100.
RatePerSchoolPresent ==
    kpi.shown =>
        LET Idx(L) == {i \in 1..Len(predictions) : predictions[i].school_name = L}
            Hits(L) == {i \in Idx(L) : predictions[i].at_risk}
            Entries(L) == {k \in 1..Len(risk_by_school) :
                              risk_by_school[k].school_name = L}
        IN  /\ \A k \in 1..Len(risk_by_school) :
                  risk_by_school[k].school_name \in Range(SchoolLabels)
            /\ \A L \in Range(SchoolLabels) :
                  /\ Cardinality(Entries(L)) = IF Idx(L) = {} THEN 0 ELSE 1
                  /\ \A k \in Entries(L) :
                        LET e == risk_by_school[k]
                        IN  /\ ~e.at_risk.nan
                            /\ e.at_risk.num = Cardinality(Hits(L))
                            /\ e.at_risk.den = Cardinality(Idx(L))
                            /\ 0 <= e.at_risk.num /\ e.at_risk.num <= e.at_risk.den
                            /\ e.at_risk_pct.num = 100 * Cardinality(Hits(L))
                            /\ e.at_risk_pct.den = Cardinality(Idx(L))

HalfAndAllAtRiskReached ==
    /\ kpi.shown
    /\ Len(predictions) = 4
    /\ [i \in 1..4 |-> predictions[i].school] = <<"GP", "MS", "GP", "MS">>
    /\ [i \in 1..4 |-> predictions[i].at_risk] = <<TRUE, TRUE, FALSE, TRUE>>
    /\ Len(risk_by_school) = 2
    /\ risk_by_school[1].school_name = "Gabriel Pereira"
    /\ risk_by_school[1].at_risk_pct.num = 50 * risk_by_school[1].at_risk_pct.den
    /\ risk_by_school[2].school_name = "Mousinho da Silveira"
    /\ risk_by_school[2].at_risk_pct.num = 100 * risk_by_school[2].at_risk_pct.den

\* C10: after any render of the Predictions page, the predictions shown (the
\* batch and the form's) come from a model fitted in that run on the current
\* filtered cohort, and the form's record is aligned to that fit's schema.
ModelFittedOnCurrentCohort ==
    (page = "Predictions" /\ status = "ok") =>
        /\ rf.fitted
        /\ rf.y = [i \in 1..Len(filtered) |-> filtered[i].G3]
        /\ Len(rf.X) = Len(filtered)
        /\ \A i \in 1..Len(filtered) :
              /\ rf.X[i]["studytime"] = filtered[i].studytime
              /\ "sex_M" \in DOMAIN rf.X[i] => rf.X[i]["sex_M"] = Bool01(filtered[i].sex = "M")
              /\ "school_MS" \in DOMAIN rf.X[i]
                    => rf.X[i]["school_MS"] = Bool01(filtered[i].school = "MS")
        /\ rf.X = X_encoded.rows
        /\ rf.feature_names_in_ = X_encoded.columns
        /\ Len(predictions) = Len(filtered)
        /\ \A i \in 1..Len(predictions) :
              predictions[i].predicted_G3 \in PredictedGrades(rf)
        /\ what_if.shown =>
              /\ what_if.by = rf
              /\ what_if.student_encoded.columns = rf.feature_names_in_

RefitAfterCohortChangeReached ==
    /\ page = "Predictions"
    /\ what_if.shown
    /\ Len(Df) = 2
    /\ Len(filtered) = 1
    /\ selected.gender = {"M"}
    /\ Len(rf.X) = 1
    /\ X_encoded.columns = <<"age", "studytime">>

====
